---- MODULE Spec2Model ----
(***************************************************************************)
(* Claims-intake service: the single-claim endpoint of src/api/claims.py   *)
(* (schema src/schemas/claim.py, normalizer src/normalize.py, table        *)
(* src/db/models.py), its two read endpoints, POST /claims of the          *)
(* single-file application src/main.py, and the bulk loader of             *)
(* src/init_db.py, all acting on one claims table.                         *)
(*                                                                         *)
(* Spec runs whole requests one after the other.  ConcSpec runs            *)
(* create_claim requests in flight together, one step per await.           *)
(* LimiterSpec follows the read routes with the requests of the limiter's  *)
(* window counted.  AppSpec is the example application of src/app/main.py  *)
(* on its own table.  LoadSpec runs one bulk load, one step per            *)
(* transaction, beside the create_claim requests in flight.                *)
(*                                                                         *)
(* store is the claims table in row order, nextId the next value of its id *)
(* sequence, created the number of ids the API drew since the table was    *)
(* created, last the latest request with its response, sessions the        *)
(* create_claim requests in flight (one database session each), and hits   *)
(* the number of requests each read route received in the current window   *)
(* of the rate limiter.  loader is the position of a bulk load that runs   *)
(* as a process of its own beside the API (LoadSpec), with the file it     *)
(* reads, the rows it has sent, and whether every step of it so far ran    *)
(* before the first create_claim request arrived.                          *)
(*                                                                         *)
(* Money is counted in cents.  Text is a TLA+ string, read one character   *)
(* at a time.  Integers wider than 31 bits (NPIs, subscriber ids) are kept *)
(* as canonical decimal strings and compared as decimals.                  *)
(***************************************************************************)
EXTENDS Integers, Sequences, FiniteSets, TLC

VARIABLES store, nextId, created, last, sessions, hits, loader

vars == <<store, nextId, created, last, sessions, hits, loader>>

(***************************************************************************)
(* Bounds of the model.                                                    *)
(***************************************************************************)
\* Number of single-claim rows the API may add on top of what a bulk load left.
MaxCreated == 1

(***************************************************************************)
(* Text helpers (Python str methods used by the code).                     *)
(***************************************************************************)
\* F applied to the value of x (x is evaluated once, before F).
Let(x, F(_)) == CHOOSE r \in {F(v) : v \in {x}} : TRUE

Char(s, i) == SubSeq(s, i, i)

Lowers == "abcdefghijklmnopqrstuvwxyz"

Uppers == "ABCDEFGHIJKLMNOPQRSTUVWXYZ"

Digits == "0123456789"

IsIn(c, alphabet) == \E i \in 1..Len(alphabet) : Char(alphabet, i) = c

IndexIn(c, alphabet) == CHOOSE i \in 1..Len(alphabet) : Char(alphabet, i) = c

IsDigit(c) == IsIn(c, Digits)

DigitVal(c) == IndexIn(c, Digits) - 1

\* \w of Python's re on str: letters, digits and the underscore.
IsWordChar(c) == IsIn(c, Lowers) \/ IsIn(c, Uppers) \/ IsDigit(c) \/ c = "_"

IsSpace(c) == c = " "

UpperChar(c) == IF IsIn(c, Lowers) THEN Char(Uppers, IndexIn(c, Lowers)) ELSE c

LowerChar(c) == IF IsIn(c, Uppers) THEN Char(Lowers, IndexIn(c, Uppers)) ELSE c

\* The recursions below walk a string by index, left to right.
RECURSIVE MapFrom(_, _, _)
\* which = "upper": str.upper(); "lower": str.lower(); "under": str.replace(" ", "_")
MapFrom(s, i, which) ==
    IF i > Len(s) THEN ""
    ELSE (CASE which = "upper" -> UpperChar(Char(s, i))
            [] which = "lower" -> LowerChar(Char(s, i))
            [] OTHER -> IF Char(s, i) = " " THEN "_" ELSE Char(s, i))
         \o MapFrom(s, i + 1, which)

MapChars(s, which) == MapFrom(s, 1, which)

str_upper(s) == MapChars(s, "upper")

str_lower(s) == MapChars(s, "lower")

\* The first and last positions of s that hold no white space.
FirstNonSpace(s) ==
    IF \A i \in 1..Len(s) : IsSpace(Char(s, i)) THEN Len(s) + 1
    ELSE CHOOSE i \in 1..Len(s) :
            ~IsSpace(Char(s, i)) /\ \A j \in 1..(i - 1) : IsSpace(Char(s, j))

LastNonSpace(s) ==
    IF \A i \in 1..Len(s) : IsSpace(Char(s, i)) THEN 0
    ELSE CHOOSE i \in 1..Len(s) :
            ~IsSpace(Char(s, i)) /\ \A j \in (i + 1)..Len(s) : IsSpace(Char(s, j))

LStrip(s) == SubSeq(s, FirstNonSpace(s), Len(s))

str_strip(s) == SubSeq(s, FirstNonSpace(s), LastNonSpace(s))

startswith(s, c) == s # "" /\ Head(s) = c

RECURSIVE KeepFrom(_, _, _, _)
\* The characters of s from position i on that are (keep) or are not (~keep) in chars.
KeepFrom(s, i, chars, keep) ==
    IF i > Len(s) THEN ""
    ELSE (IF IsIn(Char(s, i), chars) = keep THEN Char(s, i) ELSE "")
         \o KeepFrom(s, i + 1, chars, keep)

\* re.sub(r"\D", "", s)
DigitsOnly(s) == KeepFrom(s, 1, Digits, TRUE)

AllDigits(s) == \A i \in 1..Len(s) : IsDigit(Char(s, i))

\* The digit string without its leading zeros (one digit is always kept).
StripZeros(s) ==
    LET first == IF \A i \in 1..Len(s) : Char(s, i) = "0" THEN Len(s)
                 ELSE CHOOSE i \in 1..Len(s) :
                        Char(s, i) # "0" /\ \A j \in 1..(i - 1) : Char(s, j) = "0"
    IN  SubSeq(s, first, Len(s))

(***************************************************************************)
(* Decimal integers kept as text: [neg, mag], mag a canonical digit string.*)
(***************************************************************************)
\* a < b for two digit strings of equal length: the first differing digit decides.
MagLess(a, b) ==
    \E i \in 1..Len(a) :
        /\ DigitVal(Char(a, i)) < DigitVal(Char(b, i))
        /\ \A j \in 1..(i - 1) : Char(a, j) = Char(b, j)

DecLess(a, b) == Len(a) < Len(b) \/ (Len(a) = Len(b) /\ MagLess(a, b))

DecLeq(a, b) == a = b \/ DecLess(a, b)

IntLeq(x, y) ==
    CASE x.neg /\ ~y.neg -> TRUE
      [] ~x.neg /\ y.neg -> FALSE
      [] ~x.neg /\ ~y.neg -> DecLeq(x.mag, y.mag)
      [] OTHER -> DecLeq(y.mag, x.mag)

PosInt(digits) == [neg |-> FALSE, mag |-> digits]

\* The integer written by the digits `body`, negated when neg.
SignedInt(neg, body) ==
    Let(StripZeros(body), LAMBDA mag : [neg |-> neg /\ mag # "0", mag |-> mag])

\* int(text): an optional sign and digits; <<>> when the text is no integer.
ParseInt(text) ==
    Let(str_strip(text), LAMBDA t :
        Let(IF startswith(t, "-") \/ startswith(t, "+") THEN Tail(t) ELSE t, LAMBDA body :
            IF body # "" /\ AllDigits(body)
            THEN <<SignedInt(startswith(t, "-"), body)>>
            ELSE <<>>))

\* str(int)
IntStr(x) == (IF x.neg THEN "-" ELSE "") \o x.mag

(***************************************************************************)
(* Dates: datetime.strptime for the formats the code names.  A format is a *)
(* sequence of directives and literal characters.                          *)
(***************************************************************************)
\* The longest run of digits that starts s.
DigitRun(s) ==
    LET stop == IF AllDigits(s) THEN Len(s) + 1
                ELSE CHOOSE i \in 1..Len(s) :
                        ~IsDigit(Char(s, i)) /\ \A j \in 1..(i - 1) : IsDigit(Char(s, j))
    IN  SubSeq(s, 1, stop - 1)

RECURSIVE NumValUpTo(_, _)
NumValUpTo(run, n) ==
    IF n = 0 THEN 0 ELSE 10 * NumValUpTo(run, n - 1) + DigitVal(Char(run, n))

\* int(run) for a short run of digits
NumVal(run) == NumValUpTo(run, Len(run))

\* What each strptime directive accepts: the digits it takes and their range.
DirectiveOK(f, run) ==
    CASE f = "%m" -> Len(run) \in 1..2 /\ NumVal(run) \in 1..12
      [] f = "%d" -> Len(run) \in 1..2 /\ NumVal(run) \in 1..31
      [] f = "%y" -> Len(run) = 2
      [] f = "%Y" -> Len(run) = 4
      [] f = "%H" -> Len(run) \in 1..2 /\ NumVal(run) \in 0..23
      [] f = "%M" -> Len(run) \in 1..2 /\ NumVal(run) \in 0..59
      [] OTHER -> FALSE

\* %y: 69..99 are 1969..1999, 00..68 are 2000..2068.
DirectiveVal(f, run) ==
    IF f = "%y" THEN (IF NumVal(run) < 69 THEN 2000 + NumVal(run) ELSE 1900 + NumVal(run))
    ELSE NumVal(run)

DirectiveField(f) == IF f = "%y" THEN "%Y" ELSE f

IsLeap(y) == (y % 4 = 0 /\ y % 100 # 0) \/ y % 400 = 0

DaysIn(y, m) ==
    CASE m \in {4, 6, 9, 11} -> 30
      [] m = 2 -> IF IsLeap(y) THEN 29 ELSE 28
      [] OTHER -> 31

NoFields == [f \in {"%Y", "%m", "%d", "%H", "%M"} |-> 0]

RECURSIVE StrptimeFrom(_, _, _)
\* Match format fmt against text s, collecting the directives' values in acc.
StrptimeFrom(fmt, s, acc) ==
    IF fmt = <<>> THEN (IF s = "" THEN <<acc>> ELSE <<>>)
    ELSE LET f == Head(fmt) IN
         IF f = " "
         THEN IF s # "" /\ IsSpace(Head(s))
              THEN Let(LStrip(s), LAMBDA rest : StrptimeFrom(Tail(fmt), rest, acc))
              ELSE <<>>
         ELSE IF Len(f) = 1
         THEN IF startswith(s, f)
              THEN Let(Tail(s), LAMBDA rest : StrptimeFrom(Tail(fmt), rest, acc))
              ELSE <<>>
         ELSE Let(DigitRun(s), LAMBDA run :
                IF DirectiveOK(f, run)
                THEN Let(<<SubSeq(s, Len(run) + 1, Len(s)),
                           [acc EXCEPT ![DirectiveField(f)] = DirectiveVal(f, run)]>>,
                         LAMBDA next : StrptimeFrom(Tail(fmt), next[1], next[2]))
                ELSE <<>>)

\* datetime.strptime(text, fmt).date(): <<date>>, or <<>> for ValueError.
strptime_date(text, fmt) ==
    Let(StrptimeFrom(fmt, text, NoFields), LAMBDA got :
        IF got = <<>> THEN <<>>
        ELSE IF got[1]["%Y"] >= 1 /\ got[1]["%d"] <= DaysIn(got[1]["%Y"], got[1]["%m"])
        THEN <<[y |-> got[1]["%Y"], m |-> got[1]["%m"], d |-> got[1]["%d"]]>>
        ELSE <<>>)

FmtMDyHM == <<"%m", "/", "%d", "/", "%y", " ", "%H", ":", "%M">>

FmtYmd == <<"%Y", "-", "%m", "-", "%d">>

FmtMDY == <<"%m", "/", "%d", "/", "%Y">>

ServiceDateFormats == <<FmtMDyHM, FmtYmd, FmtMDY>>

RECURSIVE FirstParse(_, _)
FirstParse(text, fmts) ==
    IF fmts = <<>> THEN <<>>
    ELSE Let(strptime_date(text, Head(fmts)), LAMBDA got :
            IF got # <<>> THEN got ELSE FirstParse(text, Tail(fmts)))

\* parse_service_date that passes a null date on (<<<<>>>>) when no format matches.
parse_service_date_coercing(v) ==
    Let(FirstParse(v, ServiceDateFormats), LAMBDA got :
        IF got = <<>> THEN <<<<>>>> ELSE got)

\* ClaimCreate.parse_service_date: the formats tried in order, else ValueError (<<>>).
parse_service_date(v) == FirstParse(v, ServiceDateFormats)

(***************************************************************************)
(* Money.  A float or NUMERIC amount is [nan, c]: c cents, or NaN.  A float*)
(* sum additionally carries `under`: binary rounding left it a hair below  *)
(* its decimal value (0.1 + 0.7 - 0.8 is -1.1e-16 in Python).              *)
(***************************************************************************)
Cents(c) == [nan |-> FALSE, c |-> c]

NaN == [nan |-> TRUE, c |-> 0]

NumAdd(a, b) == IF a.nan \/ b.nan THEN NaN ELSE Cents(a.c + b.c)

NumSub(a, b) == IF a.nan \/ b.nan THEN NaN ELSE Cents(a.c - b.c)

\* PostgreSQL's order on NUMERIC: NaN equals NaN and is above every number.
NumLeq(a, b) == b.nan \/ (~a.nan /\ a.c <= b.c)

\* FloatNegative that lets every amount through.
NeverNegative(x, under) == FALSE

\* Python's `x < 0` on a float: False for NaN, True for a hair below zero.
FloatNegative(x, under) == ~x.nan /\ (x.c < 0 \/ (x.c = 0 /\ under))

(***************************************************************************)
(* src/schemas/claim.py: the request schema.  A submission is the JSON     *)
(* body: text fields are strings, quadrant may be absent or null, integer  *)
(* fields carry their JSON text ([kind, text]: a number or a string), fees *)
(* are JSON numbers in cents, and net_fee is an extra key the caller may   *)
(* add (<<>> when it does not).                                            *)
(***************************************************************************)
NpiMin == "1000000000"

NpiMax == "9999999999"

\* int field in the default (lax) mode: a JSON number, or a string holding one.
ValidateInt(j) == ParseInt(j.text)

\* conint(ge=1000000000, le=9999999999)
ValidateNpi(j) ==
    Let(ValidateInt(j), LAMBDA got :
        IF got # <<>> /\ IntLeq(PosInt(NpiMin), got[1]) /\ IntLeq(got[1], PosInt(NpiMax))
        THEN got ELSE <<>>)

\* constr(pattern=r"^D\w+"): the pattern is searched, so only a prefix must match.
ProcedurePatternMatches(s) == Len(s) >= 2 /\ Char(s, 1) = "D" /\ IsWordChar(Char(s, 2))

\* confloat(ge=0)
ValidateFee(c) == c >= 0

\* Optional[str] with no default: the key is required, null is allowed.
ValidateQuadrant(q) == q.kind \in {"null", "str"}

\* The fields of the body as the schema's validators leave them (<<>>: refused).
ValidatedFields(sub) ==
    [service_date |-> parse_service_date(sub.service_date),
     submitted_procedure |->
        IF ProcedurePatternMatches(sub.submitted_procedure)
        THEN <<sub.submitted_procedure>> ELSE <<>>,
     quadrant |-> IF ValidateQuadrant(sub.quadrant) THEN <<sub.quadrant>> ELSE <<>>,
     plan_group |-> <<sub.plan_group>>,
     subscriber_id |-> ValidateInt(sub.subscriber_id),
     provider_npi |-> ValidateNpi(sub.provider_npi),
     provider_fees |->
        IF ValidateFee(sub.provider_fees) THEN <<Cents(sub.provider_fees)>> ELSE <<>>,
     allowed_fees |->
        IF ValidateFee(sub.allowed_fees) THEN <<Cents(sub.allowed_fees)>> ELSE <<>>,
     member_coinsurance |->
        IF ValidateFee(sub.member_coinsurance) THEN <<Cents(sub.member_coinsurance)>>
        ELSE <<>>,
     member_copay |->
        IF ValidateFee(sub.member_copay) THEN <<Cents(sub.member_copay)>> ELSE <<>>]

\* ClaimCreate(**body).model_dump(): <<dict>>, or <<>> when validation fails (422).
\* Keys the schema does not declare, net_fee among them, are dropped.
ClaimCreate(sub) ==
    Let(ValidatedFields(sub), LAMBDA v :
        IF \E f \in DOMAIN v : v[f] = <<>> THEN <<>>
        ELSE <<[f \in DOMAIN v |-> v[f][1]]>>)

(***************************************************************************)
(* src/normalize.py on the one-row frame of the single-claim path.         *)
(***************************************************************************)
\* clean_npi: <<digits>>, or <<>> for ValueError.
clean_npi(npi) ==
    Let(DigitsOnly(npi), LAMBDA cleaned : IF Len(cleaned) # 10 THEN <<>> ELSE <<cleaned>>)

\* validate_procedure_code: <<code>>, or <<>> for ValueError.
validate_procedure_code(code) ==
    Let(str_upper(str_strip(code)), LAMBDA c : IF ~startswith(c, "D") THEN <<>> ELSE <<c>>)

\* normalize_monetary_fields on a float cell: str(float), "$" and "," removed,
\* "nan" replaced by "0", float(text).
normalize_monetary_float(x) == IF x.nan THEN Cents(0) ELSE x

\* net_fee_of with the copay left out of the sum.
net_fee_without_copay(d) ==
    NumSub(NumAdd(d.provider_fees, d.member_coinsurance), d.allowed_fees)

\* df["provider_fees"] + df["member_coinsurance"] + df["member_copay"] - df["allowed_fees"]
net_fee_of(d) ==
    NumSub(NumAdd(NumAdd(d.provider_fees, d.member_coinsurance), d.member_copay),
           d.allowed_fees)

\* normalize_field_values on the dumped model: <<row>>, or <<>> for ValueError.
\* pd.to_datetime is handed the date the schema parsed and leaves it that date
\* (src/tests/test_api.py::test_create_claim reads it back).
normalize_field_values(d) ==
    Let(<<validate_procedure_code(str_upper(d.submitted_procedure)),
          clean_npi(IntStr(d.provider_npi))>>, LAMBDA got :
        IF got[1] = <<>> \/ got[2] = <<>> THEN <<>>
        ELSE <<[net_fee |-> net_fee_of(d)]
                @@ [d EXCEPT !.submitted_procedure = got[1][1],
                             !.provider_npi = ParseInt(got[2][1])[1],
                             !.quadrant = IF d.quadrant.kind = "str" THEN d.quadrant.v
                                          ELSE ""]>>)

normalize_claim_dict(data) ==
    normalize_field_values(
        [data EXCEPT !.provider_fees = normalize_monetary_float(@),
                     !.allowed_fees = normalize_monetary_float(@),
                     !.member_coinsurance = normalize_monetary_float(@),
                     !.member_copay = normalize_monetary_float(@)])

(***************************************************************************)
(* src/db/models.py: the claims table.                                     *)
(***************************************************************************)
QuadrantMaxLen == 10

PlanGroupMaxLen == 50

ProcedureMaxLen == 255

\* What the INSERT accepts: the VARCHAR widths of the columns.
ColumnsAccept(r) ==
    /\ Len(r.submitted_procedure) <= ProcedureMaxLen
    /\ Len(r.quadrant) <= QuadrantMaxLen
    /\ Len(r.plan_group) <= PlanGroupMaxLen

(***************************************************************************)
(* The requests the model sends.                                           *)
(***************************************************************************)
JNum(text) == [kind |-> "int", text |-> text]

JStr(text) == [kind |-> "str", text |-> text]

QStr(v) == [kind |-> "str", v |-> v]

\* The request of src/tests/test_api.py::test_create_claim.
BaseSub ==
    [service_date |-> "3/28/18 0:00", submitted_procedure |-> "D123",
     quadrant |-> QStr("UR"), plan_group |-> "Group A",
     subscriber_id |-> JNum("100001"), provider_npi |-> JNum("1234567890"),
     provider_fees |-> 50075, allowed_fees |-> 45050,
     member_coinsurance |-> 5025, member_copay |-> 2000, net_fee |-> <<>>]

WithFees(sub, q) ==
    [sub EXCEPT !.provider_fees = q[1], !.allowed_fees = q[2],
                !.member_coinsurance = q[3], !.member_copay = q[4]]

\* <<provider_fees, allowed_fees, member_coinsurance, member_copay>> in cents
FeeQuads ==
    {<<50075, 45050, 5025, 2000>>, <<10, 80, 70, 0>>, <<0, 100, 0, 0>>,
     <<-100, 0, 0, 0>>, <<100, 0, 0, -1>>}

NpiInputs ==
    {JNum("1234567890"), JNum("1987654321"), JStr("1234567890"),
     JNum("123456789"), JNum("12345678901"), JStr("123-456-78"), JStr("123-456-7890")}

ProcedureInputs == {"D123", "d123", " D123", "D", "Dx1", "D12-3", "X123", "D-12"}

DateInputs == {"3/28/18 0:00", "2018-03-29", "03/30/2018", "2/30/18 0:00", "28/3/18"}

QuadrantInputs ==
    {QStr("UR"), [kind |-> "null", v |-> ""], [kind |-> "absent", v |-> ""],
     QStr("upper right")}

NetFeeInputs == {0, 99999}

Submissions ==
    {WithFees(BaseSub, q) : q \in FeeQuads}
    \cup {[BaseSub EXCEPT !.provider_npi = n] : n \in NpiInputs}
    \cup {[BaseSub EXCEPT !.submitted_procedure = c] : c \in ProcedureInputs}
    \cup {[BaseSub EXCEPT !.service_date = d] : d \in DateInputs}
    \cup {[BaseSub EXCEPT !.quadrant = q] : q \in QuadrantInputs}
    \cup {[BaseSub EXCEPT !.net_fee = <<n>>] : n \in NetFeeInputs}
    \cup {[WithFees(BaseSub, <<0, 100, 0, 0>>) EXCEPT !.net_fee = <<99999>>]}

\* The float sum of a request can come out a hair below zero only when its
\* decimal value is zero and an addition of two non-zero terms was rounded.
UnderChoices(sub) ==
    IF /\ sub.provider_fees + sub.member_coinsurance + sub.member_copay = sub.allowed_fees
       /\ Cardinality({f \in {"provider_fees", "member_coinsurance", "member_copay"} :
                          sub[f] # 0}) >= 2
    THEN {FALSE, TRUE} ELSE {FALSE}

\* Where a database call of create_claim may raise (connection lost, server
\* error): nowhere, in session.add, in commit, or in refresh after the commit.
Faults == {"none", "add", "commit", "refresh"}

FaultChoices(sub) == IF sub = BaseSub THEN Faults ELSE {"none"}

(***************************************************************************)
(* src/api/claims.py: the three endpoints.                                 *)
(***************************************************************************)
NewRow(id, cleaned) == [id |-> id] @@ cleaned

\* CleanedOf that lets a net_fee sent by the caller replace the computed one.
CleanedTrusting(sub) ==
    Let(ClaimCreate(sub), LAMBDA claim :
        IF claim = <<>> THEN [kind |-> "invalid"]
        ELSE Let(normalize_claim_dict(claim[1]), LAMBDA c :
                IF c = <<>> THEN [kind |-> "error"]
                ELSE [kind |-> "ok",
                      row |-> IF sub.net_fee = <<>> THEN c[1]
                              ELSE [c[1] EXCEPT !.net_fee = Cents(sub.net_fee[1])]]))

\* cleaned = normalize_claim_dict(claim.model_dump()) for the request `sub`:
\* "invalid" (the schema refuses the body, the handler does not run), "error"
\* (the normalizer raises) or the cleaned dict.
CleanedOf(sub) ==
    Let(ClaimCreate(sub), LAMBDA claim :
        IF claim = <<>> THEN [kind |-> "invalid"]
        ELSE Let(normalize_claim_dict(claim[1]), LAMBDA c :
                IF c = <<>> THEN [kind |-> "error"] ELSE [kind |-> "ok", row |-> c[1]]))

\* CleanedOf for every request of the model, computed once.
Cleaned == [sub \in Submissions |-> CleanedOf(sub)]

\* Rejected that has committed a row before it answers with the error.
RejectedLeavingRow(st, code, next) ==
    [status |-> code, body |-> <<>>,
     store |-> Append(st, NewRow(next, Cleaned[BaseSub].row)), nextId |-> next]

\* An error response: nothing was committed, the table is as it was.
Rejected(st, code, next) ==
    [status |-> code, body |-> <<>>, store |-> st, nextId |-> next]

\* Insert that replaces the rows of the table by the new one.
InsertReplacing(st, db_claim) == <<db_claim>>

\* session.add(db_claim); await session.commit()
Insert(st, db_claim) == Append(st, db_claim)

\* create_claim as a function of the table, the id sequence and the request:
\* the response status and body, and the table and sequence afterwards.
\* `burn`: an INSERT or COMMIT that fails had already drawn an id from the sequence.
create_claim_result(st, id, sub, fault, under, burn) ==
    \* ClaimCreate validation fails: 422 from the framework
    IF Cleaned[sub].kind = "invalid" THEN Rejected(st, 422, id)
    \* normalize_claim_dict raises
    ELSE IF Cleaned[sub].kind = "error" THEN Rejected(st, 400, id)
    \* if cleaned["net_fee"] < 0
    ELSE IF FloatNegative(Cleaned[sub].row.net_fee, under) THEN Rejected(st, 400, id)
    ELSE IF fault = "add" THEN Rejected(st, 400, id)
    ELSE IF fault = "commit" \/ ~ColumnsAccept(Cleaned[sub].row)
    THEN Rejected(st, 400, IF burn THEN id + 1 ELSE id)
    \* committed; refresh raises: the except clause answers 400
    ELSE IF fault = "refresh"
    THEN [status |-> 400, body |-> <<>>,
          store |-> Insert(st, NewRow(id, Cleaned[sub].row)), nextId |-> id + 1]
    ELSE [status |-> 201, body |-> <<NewRow(id, Cleaned[sub].row)>>,
          store |-> Insert(st, NewRow(id, Cleaned[sub].row)), nextId |-> id + 1]

(***************************************************************************)
(* src/main.py: the single-file application's POST /claims, on the same    *)
(* table.  Its requests in the model are the fee variations of the base    *)
(* request, one date and one procedure code its schema refuses.            *)
(***************************************************************************)
\* ClaimCreate of src/main.py with its three validators (<<>>: refused).
MainValidatedFields(sub) ==
    [service_date |-> strptime_date(sub.service_date, FmtMDyHM),
     submitted_procedure |->
        IF startswith(sub.submitted_procedure, "D") THEN <<sub.submitted_procedure>>
        ELSE <<>>,
     quadrant |-> IF sub.quadrant.kind = "str" THEN <<sub.quadrant.v>> ELSE <<>>,
     plan_group |-> <<sub.plan_group>>,
     subscriber_id |-> ValidateInt(sub.subscriber_id),
     provider_npi |-> ValidateNpi(sub.provider_npi),
     provider_fees |-> <<Cents(sub.provider_fees)>>,
     allowed_fees |-> <<Cents(sub.allowed_fees)>>,
     member_coinsurance |-> <<Cents(sub.member_coinsurance)>>,
     member_copay |-> <<Cents(sub.member_copay)>>]

\* The validated claim with the net_fee the handler computes: <<row>>, or <<>> (422).
MainClaimOf(sub) ==
    Let(MainValidatedFields(sub), LAMBDA v :
        IF \E f \in DOMAIN v : v[f] = <<>> THEN <<>>
        ELSE Let([f \in DOMAIN v |-> v[f][1]], LAMBDA claim :
                <<[net_fee |-> net_fee_of(claim)] @@ claim>>))

MainSubmissions ==
    {WithFees(BaseSub, q) : q \in FeeQuads}
    \cup {[BaseSub EXCEPT !.service_date = "2018-03-29"],
          [BaseSub EXCEPT !.submitted_procedure = "X123"]}

\* MainClaimOf for every request of the model, computed once.
MainClaim == [sub \in MainSubmissions |-> MainClaimOf(sub)]

\* create_claim of src/main.py as a function of the table, the id sequence and the
\* request.  No exception is caught: a database error is a 500.
main_create_claim_result(st, id, sub, fault, under, burn) ==
    IF MainClaim[sub] = <<>> THEN Rejected(st, 422, id)
    \* if net_fee < 0
    ELSE IF FloatNegative(MainClaim[sub][1].net_fee, under) THEN Rejected(st, 400, id)
    ELSE IF fault = "add" THEN Rejected(st, 500, id)
    ELSE IF fault = "commit" \/ ~ColumnsAccept(MainClaim[sub][1])
    THEN Rejected(st, 500, IF burn THEN id + 1 ELSE id)
    ELSE IF fault = "refresh"
    THEN [status |-> 500, body |-> <<>>,
          store |-> Insert(st, NewRow(id, MainClaim[sub][1])), nextId |-> id + 1]
    ELSE [status |-> 201, body |-> <<NewRow(id, MainClaim[sub][1])>>,
          store |-> Insert(st, NewRow(id, MainClaim[sub][1])), nextId |-> id + 1]

\* GROUP BY provider_npi, SUM(net_fee)
Providers(st) == {st[i].provider_npi : i \in 1..Len(st)}

RECURSIVE SumNetFee(_, _)
SumNetFee(st, npi) ==
    IF st = <<>> THEN Cents(0)
    ELSE IF Head(st).provider_npi = npi
         THEN NumAdd(Head(st).net_fee, SumNetFee(Tail(st), npi))
         ELSE SumNetFee(Tail(st), npi)

Group(st, npi) == [provider_npi |-> npi, total_net_fee |-> SumNetFee(st, npi)]

\* Before with the tie among equal totals broken by the smaller provider_npi.
BeforeAscendingNpi(g, h) ==
    \/ ~NumLeq(g.total_net_fee, h.total_net_fee)
    \/ /\ NumLeq(h.total_net_fee, g.total_net_fee)
       /\ NumLeq(g.total_net_fee, h.total_net_fee)
       /\ ~IntLeq(h.provider_npi, g.provider_npi)

\* ORDER BY SUM(net_fee) DESC, provider_npi DESC: g comes before h
Before(g, h) ==
    \/ ~NumLeq(g.total_net_fee, h.total_net_fee)
    \/ /\ NumLeq(h.total_net_fee, g.total_net_fee)
       /\ NumLeq(g.total_net_fee, h.total_net_fee)
       /\ ~IntLeq(g.provider_npi, h.provider_npi)

\* The groups in the order of the ORDER BY: the i-th is the one with i - 1 before it.
Ordered(groups) ==
    [i \in 1..Cardinality(groups) |->
        CHOOSE g \in groups : Cardinality({h \in groups : Before(h, g)}) = i - 1]

TopLimit == 10

Limit(seq, n) == SubSeq(seq, 1, IF Len(seq) < n THEN Len(seq) ELSE n)

TopProviders(st) ==
    Let({Group(st, npi) : npi \in Providers(st)}, LAMBDA groups :
        Let(Ordered(groups), LAMBDA ordered : Limit(ordered, TopLimit)))

(***************************************************************************)
(* src/init_db.py: the bulk loader.  A source file is its header line and  *)
(* its rows of cells, all text; an empty cell is a missing value.  Amounts *)
(* in the files of the model carry at most two decimals.                   *)
(***************************************************************************)
Retries == 5

\* await asyncio.sleep(5)
SleepSeconds == 5

\* ConnectLoop that also sleeps after the last failed attempt, before it raises.
RECURSIVE ConnectLoopSleepingLast(_, _, _)
ConnectLoopSleepingLast(attempt, failures, slept) ==
    IF attempt >= failures
    THEN [slept |-> slept, attempts |-> attempt + 1, outcome |-> "connected"]
    ELSE IF attempt < Retries - 1
    THEN ConnectLoopSleepingLast(attempt + 1, failures, slept + SleepSeconds)
    ELSE [slept |-> slept + SleepSeconds, attempts |-> attempt + 1,
          outcome |-> "RuntimeError"]

\* for attempt in range(retries), from `attempt` on, when the database refuses
\* the first `failures` connections: the outcome, the number of attempts made
\* and the seconds slept (`slept` so far).
RECURSIVE ConnectLoop(_, _, _)
ConnectLoop(attempt, failures, slept) ==
    \* async with engine.begin(): return
    IF attempt >= failures
    THEN [slept |-> slept, attempts |-> attempt + 1, outcome |-> "connected"]
    \* except: if attempt < retries - 1: sleep, next attempt
    ELSE IF attempt < Retries - 1
    THEN ConnectLoop(attempt + 1, failures, slept + SleepSeconds)
    \* else: raise RuntimeError
    ELSE [slept |-> slept, attempts |-> attempt + 1, outcome |-> "RuntimeError"]

\* wait_for_db_connection, given how many connections in a row the database refuses.
wait_for_db_connection(failures) == ConnectLoop(0, failures, 0)

\* col.strip().lower().replace(" ", "_")
normalize_header(col) == MapChars(str_lower(str_strip(col)), "under")

COLUMN_MAP(col) ==
    CASE col = "plan/group_#" -> "plan_group"
      [] col = "subscriber#" -> "subscriber_id"
      [] OTHER -> col

\* df.columns after the normalisation and the rename.
RECURSIVE Columns(_)
Columns(headers) ==
    IF headers = <<>> THEN <<>>
    ELSE <<COLUMN_MAP(normalize_header(Head(headers)))>> \o Columns(Tail(headers))

required_columns ==
    <<"service_date", "subscriber_id", "provider_npi", "submitted_procedure",
      "plan_group", "quadrant", "provider_fees", "allowed_fees",
      "member_coinsurance", "member_copay">>

\* missing_columns that stops at the first missing column.
first_missing_column(cols) ==
    Let(SelectSeq(required_columns, LAMBDA c : \A i \in 1..Len(cols) : cols[i] # c),
        LAMBDA missing : IF missing = <<>> THEN <<>> ELSE <<missing[1]>>)

\* [col for col in required_columns if col not in data.columns]
missing_columns(cols) ==
    SelectSeq(required_columns, LAMBDA c : \A i \in 1..Len(cols) : cols[i] # c)

CellOf(cols, cells, col) == cells[CHOOSE i \in 1..Len(cols) : cols[i] = col]

\* replace({r"\$": "", ",": ""}, regex=True)
RemoveChars(s, chars) == KeepFrom(s, 1, chars, FALSE)

\* The amount in cents written by the digits before and after the point.
CentsOf(neg, whole, frac) ==
    Let(100 * NumVal(whole) + (IF Len(frac) = 1 THEN 10 * NumVal(frac) ELSE NumVal(frac)),
        LAMBDA cents : Cents(IF neg THEN 0 - cents ELSE cents))

\* The unsigned part of a float literal: digits, then optionally a point and digits.
ParseUnsigned(neg, body) ==
    Let(DigitRun(body), LAMBDA whole :
        Let(SubSeq(body, Len(whole) + 1, Len(body)), LAMBDA rest :
            Let(IF rest = "" THEN "" ELSE Tail(rest), LAMBDA frac :
                IF /\ rest = "" \/ Head(rest) = "."
                   /\ AllDigits(frac) /\ Len(frac) <= 2
                   /\ whole # "" \/ frac # ""
                THEN <<CentsOf(neg, whole, frac)>>
                ELSE <<>>)))

\* float(text) in cents: <<amount>>, or <<>> for ValueError.
ParseFloat(text) ==
    Let(str_strip(text), LAMBDA t :
        IF startswith(t, "-") THEN ParseUnsigned(TRUE, Tail(t)) ELSE ParseUnsigned(FALSE, t))

\* pd.read_csv: cells it reads as a missing value (the empty cell and, of its
\* default markers, the ones spelled here).
IsNA(text) == text \in {"", "nan", "NaN", "NA", "N/A", "NULL", "null"}

\* money_cell that reads a missing value as 0, as normalize_monetary_fields does.
money_cell_zero_filled(text) ==
    IF IsNA(text) THEN <<Cents(0)>> ELSE ParseFloat(RemoveChars(text, "$,"))

\* A fee cell of the loader: a missing value stays NaN, text is cleaned and parsed.
money_cell(text) == IF IsNA(text) THEN <<NaN>> ELSE ParseFloat(RemoveChars(text, "$,"))

\* astype("int64") of an id cell: <<int>>, or <<>> when a value is missing or no integer.
int64_cell(text) == ParseInt(text)

\* pd.to_datetime(format="%m/%d/%y %H:%M", errors="coerce"): <<date>>, or <<>> for NaT.
to_datetime_coerce(text) == strptime_date(text, FmtMDyHM)

\* fillna("").astype(str) / astype(str)
quadrant_cell(text) == IF IsNA(text) THEN "" ELSE text

plan_group_cell(text) == IF IsNA(text) THEN "nan" ELSE text

\* The cells of one source row as steps 4 and 5 convert them, column by column
\* (<<>>: the conversion raises ValueError; service_date <<>>: NaT).
ConvertedCells(cols, cells) ==
    [service_date |-> to_datetime_coerce(CellOf(cols, cells, "service_date")),
     submitted_procedure |-> CellOf(cols, cells, "submitted_procedure"),
     quadrant |-> quadrant_cell(CellOf(cols, cells, "quadrant")),
     plan_group |-> plan_group_cell(CellOf(cols, cells, "plan_group")),
     subscriber_id |-> int64_cell(CellOf(cols, cells, "subscriber_id")),
     provider_npi |-> int64_cell(CellOf(cols, cells, "provider_npi")),
     provider_fees |-> money_cell(CellOf(cols, cells, "provider_fees")),
     allowed_fees |-> money_cell(CellOf(cols, cells, "allowed_fees")),
     member_coinsurance |-> money_cell(CellOf(cols, cells, "member_coinsurance")),
     member_copay |-> money_cell(CellOf(cols, cells, "member_copay"))]

\* The transformed frame row of one source row: <<row>> (service_date <<>> when NaT,
\* submitted_procedure untouched), or <<>> when a conversion raises ValueError.
TransformRow(cols, cells) ==
    Let(ConvertedCells(cols, cells), LAMBDA c :
        IF \E f \in {"subscriber_id", "provider_npi", "provider_fees", "allowed_fees",
                     "member_coinsurance", "member_copay"} : c[f] = <<>>
        THEN <<>>
        ELSE <<[service_date |-> c.service_date,
                submitted_procedure |-> c.submitted_procedure,
                quadrant |-> c.quadrant,
                plan_group |-> c.plan_group,
                subscriber_id |-> c.subscriber_id[1],
                provider_npi |-> c.provider_npi[1],
                provider_fees |-> c.provider_fees[1],
                allowed_fees |-> c.allowed_fees[1],
                member_coinsurance |-> c.member_coinsurance[1],
                member_copay |-> c.member_copay[1],
                net_fee |-> NumSub(NumAdd(NumAdd(c.provider_fees[1],
                                                 c.member_coinsurance[1]),
                                          c.member_copay[1]),
                                   c.allowed_fees[1])]>>)

\* What the batch INSERT accepts of a frame row: a date (not NaT) for the NOT NULL
\* DATE column, text for the procedure, and the VARCHAR widths.
InsertAccepts(r) ==
    /\ r.service_date # <<>>
    /\ r.submitted_procedure # ""
    /\ ColumnsAccept(r)

\* The frame of a file whose columns are cols: one transformed row per source row.
RECURSIVE Frame(_, _)
Frame(cols, rows) ==
    IF rows = <<>> THEN <<>>
    ELSE <<TransformRow(cols, Head(rows))>> \o Frame(cols, Tail(rows))

\* The objects of step 6, ids in row order.
RECURSIVE ClaimObjects(_, _)
ClaimObjects(frame, id) ==
    IF frame = <<>> THEN <<>>
    ELSE <<NewRow(id, [Head(frame)[1] EXCEPT !.service_date = @[1]])>>
         \o ClaimObjects(Tail(frame), id + 1)

\* The rows of the frame before the first one the INSERT refuses.
RECURSIVE AcceptedPrefix(_)
AcceptedPrefix(frame) ==
    IF frame = <<>> \/ ~InsertAccepts(Head(frame)[1]) THEN <<>>
    ELSE <<Head(frame)>> \o AcceptedPrefix(Tail(frame))

\* InsertFrame that commits row by row: the rows before a refused one stay.
InsertFrameRowByRow(frame) ==
    IF \E i \in 1..Len(frame) : frame[i] = <<>>
    THEN [outcome |-> "ValueError", missing |-> <<>>, rows |-> <<>>]
    ELSE IF \E i \in 1..Len(frame) : ~InsertAccepts(frame[i][1])
    THEN [outcome |-> "DBAPIError", missing |-> <<>>,
          rows |-> ClaimObjects(AcceptedPrefix(frame), 1)]
    ELSE [outcome |-> "loaded", missing |-> <<>>, rows |-> ClaimObjects(frame, 1)]

\* Steps 5 and 6 on the frame: the outcome and the rows the one commit inserts.
InsertFrame(frame) ==
    IF \E i \in 1..Len(frame) : frame[i] = <<>>
    THEN [outcome |-> "ValueError", missing |-> <<>>, rows |-> <<>>]
    ELSE IF \E i \in 1..Len(frame) : ~InsertAccepts(frame[i][1])
    THEN [outcome |-> "DBAPIError", missing |-> <<>>, rows |-> <<>>]
    ELSE [outcome |-> "loaded", missing |-> <<>>, rows |-> ClaimObjects(frame, 1)]

\* Steps 3 to 6 of initialize_data on a file that exists.
LoadFile(file) ==
    Let(Columns(file.headers), LAMBDA cols :
        Let(missing_columns(cols), LAMBDA missing :
            IF missing # <<>>
            THEN [outcome |-> "KeyError", missing |-> missing, rows |-> <<>>]
            ELSE Let(Frame(cols, file.rows), LAMBDA frame : InsertFrame(frame))))

(***************************************************************************)
(* The source files the model loads.                                       *)
(***************************************************************************)
Headers ==
    <<"service date", "submitted procedure", "quadrant", "Plan/Group #", "Subscriber#",
      "Provider NPI", "provider fees", "Allowed fees", "member coinsurance",
      " member copay">>

\* A row that differs from a plain valid one in its procedure, NPI and fees.
CsvRow(proc, npi, pf, af, mc, mp) ==
    <<"3/28/18 0:00", proc, "UR", "GRP-1000", "3730189502", npi, pf, af, mc, mp>>

\* A row of one provider whose net fee is `fee`.
FeeRow(npi, fee) == CsvRow("D0180", npi, fee, "0", "0", "0")

NoFile == [exists |-> FALSE, headers |-> <<>>, rows |-> <<>>]

CsvFile(headers, rows) == [exists |-> TRUE, headers |-> headers, rows |-> rows]

\* Eleven providers, two pairs of them with equal totals, one with two rows.
TopFile ==
    CsvFile(Headers,
        <<FeeRow("1234567890", "450"), FeeRow("1987654321", "271.88"),
          FeeRow("1497775530", "116.85"), FeeRow("1432109765", "90"),
          FeeRow("1543219876", "85"), FeeRow("1654321987", "85"),
          FeeRow("1765431098", "72.5"), FeeRow("1876543109", "72.5"),
          FeeRow("1987654310", "70"), FeeRow("1218764321", "67.5"),
          FeeRow("1111111111", "10"),
          CsvRow("D4346", "1234567890", "$1,300.50", "$1,200.00", "$16.35", "$3.65")>>)

\* Rows the loader takes as they are: a negative net fee, a three-digit NPI, a
\* zero-padded NPI, a lower-case procedure code, a missing fee.
DirtyFile ==
    CsvFile(Headers,
        <<CsvRow("D0180", "1497775530", "$0.00", "$100.00", "$0.00", "$0.00"),
          CsvRow("D0180", "123", "$10.00", "$0.00", "$0.00", "$0.00"),
          CsvRow("D0180", "0123456789", "$10.00", "$0.00", "$0.00", "$0.00"),
          CsvRow("x0180", "1497775530", "$10.00", "$0.00", "$0.00", "$0.00"),
          CsvRow("D0180", "1987654321", "", "$0.00", "$5.00", "$0.00"),
          CsvRow("D0180", "1987654321", "$10.00", "$0.00", "$0.00", "nan")>>)

MissingColumnFile ==
    CsvFile(<<"service date", "submitted procedure", "Plan/Group #", "Subscriber#",
              "Provider NPI", "Allowed fees", "member coinsurance", "member copay">>,
        <<<<"3/28/18 0:00", "D0180", "GRP-1000", "3730189502", "1497775530",
            "$100.00", "$0.00", "$0.00">>>>)

BadDateFile ==
    CsvFile(Headers,
        <<CsvRow("D0180", "1497775530", "$100.00", "$100.00", "$0.00", "$0.00"),
          <<"2018-03-28", "D0180", "UR", "GRP-1000", "3730189502", "1497775530",
            "$100.00", "$100.00", "$0.00", "$0.00">>>>)

BadValueFile ==
    CsvFile(Headers,
        <<CsvRow("D0180", "1497775530", "$100.00", "$100.00", "$0.00", "$0.00"),
          CsvRow("D0180", "123-456-7890", "$100.00", "n/a", "$0.00", "$0.00")>>)

CsvFiles ==
    {NoFile, TopFile, DirtyFile, MissingColumnFile, BadDateFile, BadValueFile}

\* LoadFile for every file of the model, computed once.
Loaded == [file \in CsvFiles \ {NoFile} |-> LoadFile(file)]

ConnectFailures == {0, 1, Retries - 1, Retries, Retries + 1}

(***************************************************************************)
(* State: the claims table, its id sequence, the number of rows the API    *)
(* has added since the table was created, and the last request with its    *)
(* response.                                                               *)
(***************************************************************************)
\* Bound: number of create_claim requests that may be in flight together.
MaxSessions == 2

Sessions == 1..MaxSessions

\* A database session that serves no request.
Idle == [pc |-> "idle"]

\* The rate limiter has counted no request in the current window.
NoHits == [claims |-> 0, top |-> 0]

\* A bulk load that has not been started.
NotLoading == [pc |-> "idle", quiet |-> TRUE, outcome |-> "", rows |-> <<>>]

Init ==
    /\ store = <<>>
    /\ nextId = 1
    /\ created = 0
    /\ last = [op |-> "start"]
    /\ sessions = [p \in Sessions |-> Idle]
    /\ hits = NoHits
    /\ loader = NotLoading

BurnChoices(sub, fault) ==
    IF Cleaned[sub].kind = "ok" /\ (fault = "commit" \/ ~ColumnsAccept(Cleaned[sub].row))
    THEN BOOLEAN ELSE {FALSE}

create_claim(sub, fault, under, burn) ==
    \E r \in {create_claim_result(store, nextId, sub, fault, under, burn)} :
        /\ r.nextId > nextId => created < MaxCreated
        /\ store' = r.store
        /\ nextId' = r.nextId
        /\ created' = IF r.nextId > nextId THEN created + 1 ELSE created
        /\ last' = [op |-> "create_claim", req |-> sub, fault |-> fault, under |-> under,
                    status |-> r.status, body |-> r.body]
        /\ UNCHANGED <<sessions, hits, loader>>

MainBurnChoices(sub, fault) ==
    IF MainClaim[sub] # <<>> /\ (fault = "commit" \/ ~ColumnsAccept(MainClaim[sub][1]))
    THEN BOOLEAN ELSE {FALSE}

main_create_claim(sub, fault, under, burn) ==
    \E r \in {main_create_claim_result(store, nextId, sub, fault, under, burn)} :
        /\ r.nextId > nextId => created < MaxCreated
        /\ store' = r.store
        /\ nextId' = r.nextId
        /\ created' = IF r.nextId > nextId THEN created + 1 ELSE created
        /\ last' = [op |-> "main_create_claim", req |-> sub, fault |-> fault,
                    under |-> under, status |-> r.status, body |-> r.body]
        /\ UNCHANGED <<sessions, hits, loader>>

\* ScanFrom that stops at the last row instead of wrapping around.
ScanWithoutWrap(st, start) == SubSeq(st, start + 1, Len(st))

\* The rows of the table as a sequential scan returns them when it starts at
\* row start + 1 and wraps around.
ScanFrom(st, start) == SubSeq(st, start + 1, Len(st)) \o SubSeq(st, 1, start)

\* Bound: how far from the first row a scan may start.
MaxScanStart == 1

\* select(Claim) names no order: the rows come in the order the engine scans
\* them, and a scan need not start at the first row.
ScanStarts(st) == {start \in 0..MaxScanStart : start = 0 \/ start < Len(st)}

\* The response of GET /claims: 429 from the limiter before the handler runs,
\* or result.scalars().all().
get_all_claims_response(throttled, start) ==
    IF throttled
    THEN [op |-> "get_all_claims", status |-> 429, body |-> <<>>]
    ELSE [op |-> "get_all_claims", status |-> 200, body |-> ScanFrom(store, start)]

\* GET /claims behind RateLimiter(times=10, seconds=60), the limiter's counter
\* left out: it either lets the request through or answers 429.
get_all_claims(throttled, start) ==
    /\ last' = get_all_claims_response(throttled, start)
    /\ UNCHANGED <<store, nextId, created, sessions, hits, loader>>

\* The response of GET /top_providers; the route declares no dependency
\* besides the database session.
get_top_providers_response ==
    [op |-> "get_top_providers", status |-> 200, body |-> TopProviders(store)]

get_top_providers ==
    /\ last' = get_top_providers_response
    /\ UNCHANGED <<store, nextId, created, sessions, hits, loader>>

\* create_all alone: an existing table is kept with its rows.
create_all_only(st) == st

\* Base.metadata.drop_all, then Base.metadata.create_all: the table is empty.
drop_all_create_all(st) == <<>>

\* initialize_data that raises when the file is absent.
NoFileRaises == [outcome |-> "FileNotFoundError", missing |-> <<>>, rows |-> <<>>]

\* if not os.path.exists(CSV_FILE_PATH): return
NoFileResult == [outcome |-> "no_file", missing |-> <<>>, rows |-> <<>>]

\* initialize_data: the connectivity check, the schema drop and re-creation, the
\* file check, the transformation and the one-commit insert.
\* `burn`: a batch INSERT that fails had already drawn its ids from the sequence.
initialize_data(file, failures, burn) ==
    \E w \in {wait_for_db_connection(failures)} :
        IF w.outcome = "RuntimeError"
        THEN /\ last' = [failures |-> failures, outcome |-> "RuntimeError", missing |-> <<>>,
                         file |-> file, op |-> "initialize_data",
                         rows_before |-> Len(store), connect |-> w]
             /\ UNCHANGED <<store, nextId, created, sessions, hits, loader>>
        ELSE \E r \in {IF file.exists THEN Loaded[file] ELSE NoFileResult} :
                 /\ store' = drop_all_create_all(store) \o r.rows
                 /\ nextId' = IF r.outcome = "loaded" \/ (r.outcome = "DBAPIError" /\ burn)
                              THEN Len(file.rows) + 1 ELSE 1
                 /\ created' = 0
                 /\ last' = [failures |-> failures, outcome |-> r.outcome,
                             missing |-> r.missing, file |-> file, op |-> "initialize_data",
                             rows_before |-> Len(store), connect |-> w]
                 /\ UNCHANGED <<sessions, hits, loader>>

LoadBurnChoices(file) ==
    IF file.exists /\ Loaded[file].outcome = "DBAPIError" THEN BOOLEAN ELSE {FALSE}

Next ==
    \/ \E sub \in Submissions : \E fault \in FaultChoices(sub) :
         \E under \in UnderChoices(sub) : \E burn \in BurnChoices(sub, fault) :
            create_claim(sub, fault, under, burn)
    \/ \E sub \in MainSubmissions : \E fault \in FaultChoices(sub) :
         \E under \in UnderChoices(sub) : \E burn \in MainBurnChoices(sub, fault) :
            main_create_claim(sub, fault, under, burn)
    \/ \E throttled \in BOOLEAN : \E start \in ScanStarts(store) :
         get_all_claims(throttled, start)
    \/ get_top_providers
    \/ \E file \in CsvFiles : \E failures \in ConnectFailures :
         \E burn \in LoadBurnChoices(file) : initialize_data(file, failures, burn)

Spec == Init /\ [][Next]_vars

(***************************************************************************)
(* create_claim requests in flight together.  Every request has a database *)
(* session of its own (src/dependencies/session.py) and the event loop may *)
(* switch to another request at each await of the handler, so the handler  *)
(* of src/api/claims.py runs as four steps: the body of the try block up   *)
(* to session.add; the INSERT that commit() flushes, which draws the id;   *)
(* the COMMIT, which makes the row visible; and refresh with the return.   *)
(***************************************************************************)
\* The requests sent while others are in flight: three the endpoint accepts
\* (the base request, a lower-case procedure code, a null quadrant), one the
\* table refuses in the INSERT, one the schema refuses and one with a negative
\* net fee.
ConcSubmissions ==
    {BaseSub,
     [BaseSub EXCEPT !.submitted_procedure = "Dx1"],
     [BaseSub EXCEPT !.quadrant = [kind |-> "null", v |-> ""]],
     [BaseSub EXCEPT !.quadrant = QStr("upper right")],
     [BaseSub EXCEPT !.provider_npi = JNum("123456789")],
     WithFees(BaseSub, <<0, 100, 0, 0>>)}

\* Whether the COMMIT or the refresh of a session's request may raise.
ConcFaults(session) ==
    IF session.pc \in {"flushed", "committed"} /\ session.req = BaseSub
    THEN BOOLEAN ELSE {FALSE}

\* A request that has been answered.
Done(sub, code, body) == [pc |-> "done", req |-> sub, status |-> code, body |-> body]

\* nextval that looks at the committed rows instead of the sequence.
NextValFromTable(st, seq) == Len(st) + 1

\* id = Column(Integer, primary_key=True): the INSERT takes nextval of the
\* column's sequence, whatever rows the table holds.
NextVal(st, seq) == seq

\* SELECT ... WHERE id = :id
RowsWithId(st, id) == SelectSeq(st, LAMBDA r : r.id = id)

\* claim: ClaimCreate is validated, then cleaned = normalize_claim_dict(...),
\* the net_fee check, Claim(**cleaned) and session.add(db_claim).
receive(p, sub, under) ==
    /\ sessions[p].pc = "idle"
    /\ sessions' = [sessions EXCEPT ![p] =
           IF Cleaned[sub].kind = "invalid" THEN Done(sub, 422, <<>>)
           ELSE IF Cleaned[sub].kind = "error" THEN Done(sub, 400, <<>>)
           ELSE IF FloatNegative(Cleaned[sub].row.net_fee, under) THEN Done(sub, 400, <<>>)
           ELSE [pc |-> "added", req |-> sub, row |-> Cleaned[sub].row]]
    /\ UNCHANGED <<store, nextId, created, last, hits, loader>>

\* await session.commit(), first half: the flush sends the INSERT.  The id is
\* drawn even when the table refuses the row; the except clause answers 400.
flush(p) ==
    /\ sessions[p].pc = "added"
    /\ nextId' = nextId + 1
    /\ sessions' = [sessions EXCEPT ![p] =
           IF ~ColumnsAccept(sessions[p].row) THEN Done(sessions[p].req, 400, <<>>)
           ELSE [pc |-> "flushed", req |-> sessions[p].req,
                 row |-> NewRow(NextVal(store, nextId), sessions[p].row)]]
    /\ UNCHANGED <<store, created, last, hits, loader>>

\* await session.commit(), second half: the COMMIT.
commit(p, fails) ==
    /\ sessions[p].pc = "flushed"
    /\ IF fails
       THEN /\ sessions' = [sessions EXCEPT ![p] = Done(sessions[p].req, 400, <<>>)]
            /\ UNCHANGED store
       ELSE /\ store' = Insert(store, sessions[p].row)
            /\ sessions' = [sessions EXCEPT ![p] =
                   [pc |-> "committed", req |-> sessions[p].req, row |-> sessions[p].row]]
    /\ UNCHANGED <<nextId, created, last, hits, loader>>

\* await session.refresh(db_claim); return db_claim.  refresh raises when the
\* SELECT finds no row with the id, and the except clause answers 400.
refresh(p, fails) ==
    /\ sessions[p].pc = "committed"
    /\ sessions' = [sessions EXCEPT ![p] =
           IF fails \/ RowsWithId(store, sessions[p].row.id) = <<>>
           THEN Done(sessions[p].req, 400, <<>>)
           ELSE Done(sessions[p].req, 201, <<RowsWithId(store, sessions[p].row.id)[1]>>)]
    /\ UNCHANGED <<store, nextId, created, last, hits, loader>>

ConcNext ==
    \/ \E p \in Sessions : \E sub \in ConcSubmissions : \E under \in UnderChoices(sub) :
         receive(p, sub, under)
    \/ \E p \in Sessions : flush(p)
    \/ \E p \in Sessions : \E fails \in ConcFaults(sessions[p]) : commit(p, fails)
    \/ \E p \in Sessions : \E fails \in ConcFaults(sessions[p]) : refresh(p, fails)
    \/ \E throttled \in BOOLEAN : \E start \in ScanStarts(store) :
         get_all_claims(throttled, start)
    \/ get_top_providers

ConcSpec == Init /\ [][ConcNext]_vars

(***************************************************************************)
(* The bulk loader beside the API.  init_db.py is a program of its own     *)
(* (asyncio.run(initialize_data()), line 148), so one run of it proceeds   *)
(* while the API serves create_claim requests, and each of its database    *)
(* transactions is a step: the connectivity check, the transaction that    *)
(* drops and re-creates the schema, the INSERT of the file's rows, and the *)
(* COMMIT.                                                                 *)
(***************************************************************************)
\* The requests sent while the loader may be running: two the endpoint
\* accepts and one it refuses.
LoadSubmissions ==
    {BaseSub,
     [BaseSub EXCEPT !.submitted_procedure = "Dx1"],
     [BaseSub EXCEPT !.provider_npi = JNum("123456789")]}

\* The files the loader may find: none, one that loads, one that lacks a column.
LoadFiles == {NoFile, DirtyFile, MissingColumnFile}

\* The connectivity check succeeds at once or fails on every attempt.
LoadConnectFailures == {0, Retries}

\* No create_claim request has arrived yet.
NoRequestYet == \A p \in Sessions : sessions[p].pc = "idle"

\* The rows of one batch with the ids the sequence hands out from seq on.
Renumbered(rows, seq) == [i \in 1..Len(rows) |-> [rows[i] EXCEPT !.id = seq + i - 1]]

\* await wait_for_db_connection(): RuntimeError ends the run before the schema
\* is touched.
load_connect(failures) ==
    /\ loader.pc = "idle"
    /\ \E w \in {wait_for_db_connection(failures)} :
         loader' = [pc |-> IF w.outcome = "RuntimeError" THEN "done" ELSE "connected",
                    quiet |-> loader.quiet /\ NoRequestYet,
                    outcome |-> IF w.outcome = "RuntimeError" THEN "RuntimeError" ELSE "",
                    rows |-> <<>>]
    /\ UNCHANGED <<store, nextId, created, last, sessions, hits>>

\* async with engine.begin(): drop_all, create_all, in one transaction.  DROP
\* TABLE waits for the sessions whose INSERT is not yet committed; the new
\* table has a new id sequence.
load_drop ==
    /\ loader.pc = "connected"
    /\ \A p \in Sessions : sessions[p].pc # "flushed"
    /\ store' = drop_all_create_all(store)
    /\ nextId' = 1
    /\ loader' = [loader EXCEPT !.pc = "dropped", !.quiet = @ /\ NoRequestYet]
    /\ UNCHANGED <<created, last, sessions, hits>>

\* The file check, the transformation, and the INSERT that session.commit()
\* flushes: the rows draw their ids; a run that finds no file or lacks a column
\* ends here.
load_insert(file) ==
    /\ loader.pc = "dropped"
    /\ \E r \in {IF file.exists THEN Loaded[file] ELSE NoFileResult} :
         /\ nextId' = nextId + Len(r.rows)
         /\ loader' = [pc |-> IF r.outcome = "loaded" THEN "inserted" ELSE "done",
                       quiet |-> loader.quiet /\ NoRequestYet,
                       outcome |-> r.outcome,
                       rows |-> Renumbered(r.rows, nextId)]
    /\ UNCHANGED <<store, created, last, sessions, hits>>

\* The COMMIT of session.commit(): the rows of the file are in the table.
load_commit ==
    /\ loader.pc = "inserted"
    /\ store' = store \o loader.rows
    /\ loader' = [loader EXCEPT !.pc = "done", !.rows = <<>>, !.quiet = @ /\ NoRequestYet]
    /\ UNCHANGED <<nextId, created, last, sessions, hits>>

LoadNext ==
    \/ \E p \in Sessions : \E sub \in LoadSubmissions : \E under \in UnderChoices(sub) :
         receive(p, sub, under)
    \/ \E p \in Sessions : flush(p)
    \/ \E p \in Sessions : \E fails \in ConcFaults(sessions[p]) : commit(p, fails)
    \/ \E p \in Sessions : \E fails \in ConcFaults(sessions[p]) : refresh(p, fails)
    \/ \E failures \in LoadConnectFailures : load_connect(failures)
    \/ load_drop
    \/ \E file \in LoadFiles : load_insert(file)
    \/ load_commit

LoadSpec == Init /\ [][LoadNext]_vars

(***************************************************************************)
(* The read routes with the requests of the current limiter window counted.*)
(* RateLimiter(times, seconds) of fastapi-limiter keeps one counter per     *)
(* route and client that expires `seconds` after the first request it      *)
(* counted; a request that finds the counter at `times` is answered 429.   *)
(* hits[route] is the number of requests the route received since its      *)
(* window opened, whether or not the route has a limiter.                  *)
(***************************************************************************)
\* RateLimiter(times=10, ...)
RateLimitTimes == 10

\* Bound: requests of one window to one route that the model follows.
MaxHits == 11

\* GET /claims: dependencies=[Depends(RateLimiter(times=10, seconds=60))]
limited_get_all_claims(start) ==
    /\ hits.claims < MaxHits
    /\ last' = get_all_claims_response(hits.claims >= RateLimitTimes, start)
    /\ hits' = [hits EXCEPT !.claims = @ + 1]
    /\ UNCHANGED <<store, nextId, created, sessions, loader>>

\* GET /top_providers: no RateLimiter among its dependencies.
counted_get_top_providers ==
    /\ hits.top < MaxHits
    /\ last' = get_top_providers_response
    /\ hits' = [hits EXCEPT !.top = @ + 1]
    /\ UNCHANGED <<store, nextId, created, sessions, loader>>

\* The 60 seconds of a route's window are over.
window_expires(route) ==
    /\ hits[route] > 0
    /\ hits' = [hits EXCEPT ![route] = 0]
    /\ UNCHANGED <<store, nextId, created, last, sessions, loader>>

LimiterNext ==
    \/ \E start \in ScanStarts(store) : limited_get_all_claims(start)
    \/ counted_get_top_providers
    \/ \E route \in {"claims", "top"} : window_expires(route)

LimiterSpec == Init /\ [][LimiterNext]_vars

(***************************************************************************)
(* src/app/main.py: the example application.  It is deployed on its own,   *)
(* with a claims table of its own (text NPI, no service date); in AppSpec  *)
(* store and nextId are that table and its id sequence.  Its handlers      *)
(* catch nothing: an exception is a 500 from the framework.                *)
(***************************************************************************)
\* The payload of src/tests/test.py::test_create_claim_valid.
AppBaseSub ==
    [provider_npi |-> JStr("1234567890"), submitted_procedure |-> "D0123",
     allowed_fees |-> 10000, provider_fees |-> 8000,
     member_coinsurance |-> 1000, member_copay |-> 500]

\* <<allowed_fees, provider_fees, member_coinsurance, member_copay>> in cents
AppFeeQuads == {<<10000, 8000, 1000, 500>>, <<8000, 10000, 0, 0>>, <<5000, 5000, 0, 0>>}

AppSubmissions ==
    {[AppBaseSub EXCEPT !.provider_npi = n, !.submitted_procedure = c,
                        !.allowed_fees = q[1], !.provider_fees = q[2],
                        !.member_coinsurance = q[3], !.member_copay = q[4]] :
        n \in {JStr("1234567890"), JStr("12345"), JNum("1234567890")},
        c \in {"D0123", "x1"},
        q \in AppFeeQuads}

AppFaultChoices(sub) == IF sub = AppBaseSub THEN Faults ELSE {"none"}

\* ClaimCreate of src/app/main.py: provider_npi must be a JSON string; the
\* fees are floats with no constraint.  <<model_dump()>>, or <<>> for 422.
AppClaimCreate(sub) ==
    IF sub.provider_npi.kind # "str" THEN <<>>
    ELSE <<[provider_npi |-> sub.provider_npi.text,
            submitted_procedure |-> sub.submitted_procedure,
            allowed_fees |-> Cents(sub.allowed_fees),
            provider_fees |-> Cents(sub.provider_fees),
            member_coinsurance |-> Cents(sub.member_coinsurance),
            member_copay |-> Cents(sub.member_copay)]>>

\* Claim(**claim.model_dump(), net_fee=claim.allowed_fees - claim.provider_fees)
AppNewClaim(claim) ==
    [net_fee |-> NumSub(claim.allowed_fees, claim.provider_fees)] @@ claim

\* POST /claims/ of src/app/main.py.  `burn`: a commit that fails had already
\* drawn an id.
app_create_claim(sub, fault, burn) ==
    /\ last' = [op |-> "app_create_claim", req |-> sub, fault |-> fault,
                status |-> IF AppClaimCreate(sub) = <<>> THEN 422
                           ELSE IF fault # "none" THEN 500 ELSE 200,
                body |-> IF AppClaimCreate(sub) = <<>> \/ fault # "none" THEN <<>>
                         ELSE <<NewRow(nextId, AppNewClaim(AppClaimCreate(sub)[1]))>>]
    /\ IF AppClaimCreate(sub) = <<>> \/ fault = "add"
       THEN UNCHANGED <<store, nextId, created>>
       ELSE IF fault = "commit"
       THEN /\ burn => created < MaxCreated
            /\ nextId' = IF burn THEN nextId + 1 ELSE nextId
            /\ created' = IF burn THEN created + 1 ELSE created
            /\ UNCHANGED store
       ELSE /\ created < MaxCreated
            /\ store' = Insert(store, NewRow(nextId, AppNewClaim(AppClaimCreate(sub)[1])))
            /\ nextId' = nextId + 1
            /\ created' = created + 1
    /\ UNCHANGED <<sessions, hits, loader>>

\* GET /claims/ of src/app/main.py: session.execute is handed a plain string,
\* which SQLAlchemy 2 (the version that has async_sessionmaker) refuses with
\* ArgumentError before any SQL is sent.
app_get_all_claims ==
    /\ last' = [op |-> "app_get_all_claims", status |-> 500, body |-> <<>>]
    /\ UNCHANGED <<store, nextId, created, sessions, hits, loader>>

health_check ==
    /\ last' = [op |-> "health_check", status |-> 200, body |-> <<>>]
    /\ UNCHANGED <<store, nextId, created, sessions, hits, loader>>

AppNext ==
    \/ \E sub \in AppSubmissions : \E fault \in AppFaultChoices(sub) :
         \E burn \in (IF fault = "commit" THEN BOOLEAN ELSE {FALSE}) :
            app_create_claim(sub, fault, burn)
    \/ app_get_all_claims
    \/ health_check

AppSpec == Init /\ [][AppNext]_vars

(***************************************************************************)
(* Properties of the single-claim path.                                    *)
(***************************************************************************)
\* C1: for every submission create_claim accepts, the net_fee of the stored row
\* (and of the returned one) is provider_fees + member_coinsurance + member_copay
\* - allowed_fees of that submission, to the cent.
NetFeeComputed ==
    (last.op = "create_claim" /\ last.status = 201) =>
        /\ store[Len(store)].net_fee
             = Cents(last.req.provider_fees + last.req.member_coinsurance
                     + last.req.member_copay - last.req.allowed_fees)
        /\ last.body = <<store[Len(store)]>>

\* An accepted request with a copay whose stored net fee is 120.50.
NetFeeComputedWitness ==
    /\ last.op = "create_claim" /\ last.status = 201
    /\ last.req.member_copay = 2000
    /\ store[Len(store)].net_fee = Cents(12050)

\* C2: a submission whose four fees are each non-negative and whose net fee is
\* negative is answered 400 by create_claim (of src/api/claims.py and of src/main.py
\* alike) and the table is left as it was.
NegativeNetFeeRejected ==
    [][(/\ last'.op \in {"create_claim", "main_create_claim"}
        /\ last'.req.provider_fees >= 0 /\ last'.req.allowed_fees >= 0
        /\ last'.req.member_coinsurance >= 0 /\ last'.req.member_copay >= 0
        /\ last'.req.provider_fees + last'.req.member_coinsurance
             + last'.req.member_copay - last'.req.allowed_fees < 0)
       => (last'.status = 400 /\ store' = store)]_vars

\* A request with fees 0 / 100 / 0 / 0 was answered 400 on a table that holds rows.
NegativeNetFeeRejectedWitness ==
    /\ last.op = "create_claim" /\ last.status = 400
    /\ last.req.provider_fees = 0 /\ last.req.allowed_fees = 100
    /\ last.req.member_coinsurance = 0 /\ last.req.member_copay = 0
    /\ Len(store) > 0

\* C3: every row of the table has net_fee >= 0, whichever entry point wrote it.
StoreNetFeeNonNegative ==
    \A i \in 1..Len(store) : ~store[i].net_fee.nan => store[i].net_fee.c >= 0

\* C4: a submission that is valid apart from its submitted_procedure is accepted
\* exactly when the procedure, trimmed and upper-cased, starts with "D", and is
\* then stored trimmed and upper-cased.
ProcedureAcceptedIffStartsWithD ==
    (/\ last.op = "create_claim" /\ last.fault = "none"
     /\ [last.req EXCEPT !.submitted_procedure = BaseSub.submitted_procedure] = BaseSub)
    => LET code == str_upper(str_strip(last.req.submitted_procedure))
       IN  /\ last.status = 201 <=> startswith(code, "D")
           /\ last.status = 201 => store[Len(store)].submitted_procedure = code

StoreNpiTenDigits ==
    \A i \in 1..Len(store) :
        ~store[i].provider_npi.neg /\ Len(store[i].provider_npi.mag) = 10

\* C7: get_top_providers returns min(10, k) entries for the k providers of the
\* table, each provider at most once, each with the sum of the net_fee of its
\* rows, ordered by total descending and among equal totals by the larger
\* provider_npi first, and no provider left out ranks above a returned one.
\* (A total that is NaN ranks above every number, as in the ORDER BY.)
TopProvidersRanked ==
    last.op = "get_top_providers" =>
        LET body == last.body
            npis == {store[i].provider_npi : i \in 1..Len(store)}
            Rows(n) == {i \in 1..Len(store) : store[i].provider_npi = n}
            Total(n) ==
                LET upto[i \in 0..Len(store)] ==
                        IF i = 0 THEN 0
                        ELSE upto[i - 1] + (IF i \in Rows(n) THEN store[i].net_fee.c ELSE 0)
                IN  IF \E i \in Rows(n) : store[i].net_fee.nan
                    THEN [nan |-> TRUE, c |-> 0]
                    ELSE [nan |-> FALSE, c |-> upto[Len(store)]]
            Above(g, h) ==
                \/ g.total_net_fee.nan /\ ~h.total_net_fee.nan
                \/ /\ ~g.total_net_fee.nan /\ ~h.total_net_fee.nan
                   /\ g.total_net_fee.c > h.total_net_fee.c
                \/ /\ g.total_net_fee = h.total_net_fee
                   /\ g.provider_npi # h.provider_npi
                   /\ IntLeq(h.provider_npi, g.provider_npi)
        IN  /\ last.status = 200
            /\ Len(body) = IF Cardinality(npis) < 10 THEN Cardinality(npis) ELSE 10
            /\ \A i \in 1..Len(body) :
                 /\ body[i].provider_npi \in npis
                 /\ body[i].total_net_fee = Total(body[i].provider_npi)
            /\ \A i, j \in 1..Len(body) : i < j => Above(body[i], body[j])
            /\ \A n \in npis :
                 (\A i \in 1..Len(body) : body[i].provider_npi # n)
                 => \A i \in 1..Len(body) :
                      Above(body[i], [provider_npi |-> n, total_net_fee |-> Total(n)])

\* Ten of eleven providers were returned, two of them with equal totals, the first
\* with the total of its two rows.
TopProvidersRankedWitness ==
    /\ last.op = "get_top_providers"
    /\ Len(last.body) = 10
    /\ Cardinality({store[i].provider_npi : i \in 1..Len(store)}) = 11
    /\ last.body[5].total_net_fee = last.body[6].total_net_fee
    /\ last.body[1].total_net_fee = Cents(57050)

\* C8: whenever create_claim answers with an error, the table holds exactly the
\* rows it held before the request.
ErrorLeavesStoreUnchanged ==
    [][(last'.op = "create_claim" /\ last'.status # 201) => store' = store]_vars

\* C9: a submission that carries a net_fee of its own has the outcome of the same
\* submission without it, on every table and for every failure of the database:
\* the same status, the same returned and stored row, the same net_fee.
CallerNetFeeIgnored ==
    \A sub \in Submissions : sub.net_fee # <<>> =>
        \A fault \in Faults, under \in UnderChoices(sub), burn \in BOOLEAN :
            create_claim_result(store, nextId, sub, fault, under, burn)
              = create_claim_result(store, nextId, [sub EXCEPT !.net_fee = <<>>],
                                    fault, under, burn)

\* A request that carried net_fee 999.99 was accepted and stored with the computed 120.50.
CallerNetFeeIgnoredWitness ==
    /\ last.op = "create_claim" /\ last.status = 201
    /\ last.req.net_fee = <<99999>>
    /\ store[Len(store)].net_fee = Cents(12050)

\* C10: across create_claim, get_all_claims and get_top_providers every row of the
\* table stays where it is with every field unchanged; an accepted create_claim adds
\* exactly one row and the two reads leave the table as it is.
PersistedClaimsImmutable ==
    [][last'.op \in {"create_claim", "get_all_claims", "get_top_providers"}
       => /\ Len(store') >= Len(store)
          /\ SubSeq(store', 1, Len(store)) = store
          /\ (last'.op = "create_claim" /\ last'.status = 201)
               => Len(store') = Len(store) + 1
          /\ last'.op # "create_claim" => store' = store]_vars

\* A read answered on a table that holds loaded rows and, after them, a created one.
PersistedClaimsImmutableWitness ==
    /\ last.op \in {"get_all_claims", "get_top_providers"} /\ last.status = 200
    /\ created = 1 /\ Len(store) >= 2
    /\ store[Len(store)].id = store[Len(store) - 1].id + 1

(***************************************************************************)
(* Properties of requests in flight together.                              *)
(***************************************************************************)
\* The requests that were answered 201.
Acknowledged == {p \in Sessions : sessions[p].pc = "done" /\ sessions[p].status = 201}

\* C11: under every interleaving of concurrent create_claim requests, each
\* request answered 201 returns one row of the table, made of its own cleaned
\* fields and an id the sequence generated; the ids of the table's rows are
\* pairwise distinct, no two acknowledged requests share an id, and every
\* acknowledged row is still in the table (none overwrote another).
ConcurrentIdsDistinct ==
    /\ \A i, j \in 1..Len(store) : i # j => store[i].id # store[j].id
    /\ \A p \in Acknowledged :
         /\ Len(sessions[p].body) = 1
         /\ \E i \in 1..Len(store) : store[i] = sessions[p].body[1]
         /\ sessions[p].body[1].id \in 1..(nextId - 1)
         /\ sessions[p].body[1] = NewRow(sessions[p].body[1].id, Cleaned[sessions[p].req].row)
    /\ \A p, q \in Acknowledged : p # q => sessions[p].body[1].id # sessions[q].body[1].id

\* C11 witness: every request in flight was acknowledged, each with a row of
\* its own in the table.
ConcurrentIdsDistinctWitness ==
    /\ Acknowledged = Sessions
    /\ Len(store) = MaxSessions

(***************************************************************************)
(* Properties of the read endpoints.                                       *)
(***************************************************************************)
\* C12: two served calls of the same read endpoint (get_all_claims or
\* get_top_providers) that follow each other with no write to the table in
\* between return the same entries in the same order.
ReadsIdempotent ==
    [][(/\ last.op \in {"get_all_claims", "get_top_providers"}
        /\ last'.op = last.op
        /\ last.status = 200 /\ last'.status = 200
        /\ store' = store)
       => last'.body = last.body]_vars

\* The fields of a listed row that create_claim stores as submitted: the
\* calendar date of service_date ('3/28/18 0:00' is 2018-03-28), plan_group,
\* the two integers and the four fees.
SubmittedFieldsKept(row, req) ==
    /\ req.service_date = "3/28/18 0:00" => row.service_date = [y |-> 2018, m |-> 3, d |-> 28]
    /\ row.plan_group = req.plan_group
    /\ row.subscriber_id = [neg |-> FALSE, mag |-> req.subscriber_id.text]
    /\ row.provider_npi = [neg |-> FALSE, mag |-> req.provider_npi.text]
    /\ row.provider_fees = Cents(req.provider_fees)
    /\ row.allowed_fees = Cents(req.allowed_fees)
    /\ row.member_coinsurance = Cents(req.member_coinsurance)
    /\ row.member_copay = Cents(req.member_copay)

\* What get_all_claims returns when it is served in the current state, for
\* every scan the engine may choose.
Listings == {get_all_claims_response(FALSE, start).body : start \in ScanStarts(store)}

UpperProcedure == [sub \in ConcSubmissions |-> str_upper(sub.submitted_procedure)]

LackedBy(file) ==
    {c \in {required_columns[k] : k \in 1..Len(required_columns)} :
        \A i \in 1..Len(file.headers) : COLUMN_MAP(normalize_header(file.headers[i])) # c}

\* The last operation was a bulk load that got past the connectivity check.
LoadRan == last.op = "initialize_data" /\ last.outcome # "RuntimeError"

\* C14: when the source file lacks required columns, the bulk load stops with
\* one KeyError that names every missing column, and the table holds no row.
MissingColumnsReported ==
    (LoadRan /\ last.file.exists /\ LackedBy(last.file) # {}) =>
        /\ last.outcome = "KeyError"
        /\ {last.missing[k] : k \in 1..Len(last.missing)} = LackedBy(last.file)
        /\ Len(last.missing) = Cardinality(LackedBy(last.file))
        /\ store = <<>>

\* C14 witness: a load of the file that lacks quadrant and provider fees ended
\* with the KeyError naming both.
MissingColumnsReportedWitness ==
    /\ LoadRan /\ last.file = MissingColumnFile
    /\ last.outcome = "KeyError"
    /\ last.missing = <<"quadrant", "provider_fees">>
    /\ store = <<>>

\* C15: when the source file is absent, the bulk load (once connected) returns
\* normally, without an exception, and the table holds no row.
AbsentFileIsNoOp ==
    (LoadRan /\ ~last.file.exists) =>
        /\ last.outcome = "no_file"
        /\ store = <<>>

\* C15 witness: a load found no file and returned, the table re-created empty.
AbsentFileIsNoOpWitness ==
    /\ LoadRan /\ last.file = NoFile
    /\ last.outcome = "no_file"
    /\ store = <<>> /\ nextId = 1

\* C16: wait_for_db_connection makes at most Retries (5) attempts and returns
\* at the first that succeeds; it sleeps 5 seconds after each failed attempt
\* but the fifth; after the fifth failure it raises, and initialize_data ends
\* with the table and its sequence as they were (nothing dropped, nothing
\* inserted).  A later step of the load that fails is not retried: the load
\* ends with that error and no row.
ConnectionRetryBounded ==
    [][last'.op = "initialize_data" =>
        /\ last'.connect.attempts \in 1..Retries
        /\ last'.failures < Retries =>
              /\ last'.connect.outcome = "connected"
              /\ last'.connect.attempts = last'.failures + 1
              /\ last'.connect.slept = SleepSeconds * last'.failures
              /\ last'.outcome # "RuntimeError"
        /\ last'.failures >= Retries =>
              /\ last'.connect.outcome = "RuntimeError"
              /\ last'.connect.attempts = Retries
              /\ last'.connect.slept = SleepSeconds * (Retries - 1)
              /\ last'.outcome = "RuntimeError"
              /\ store' = store /\ nextId' = nextId
        /\ last'.outcome \in {"KeyError", "ValueError", "DBAPIError"} => store' = <<>>]_vars

\* C16 witness: the database refused five connections; the load raised after
\* five attempts and four sleeps, and the rows loaded earlier are still there.
ConnectionRetryBoundedWitness ==
    /\ last.op = "initialize_data" /\ last.outcome = "RuntimeError"
    /\ last.connect = [slept |-> 20, attempts |-> 5, outcome |-> "RuntimeError"]
    /\ Len(store) > 0

\* C17: after a bulk load that inserted its rows, every row of the table has a
\* submitted_procedure that is trimmed, in upper case and starts with 'D' (a
\* row that is not so would have aborted the load).
BulkProceduresValidated ==
    (last.op = "initialize_data" /\ last.outcome = "loaded") =>
        \A i \in 1..Len(store) :
            validate_procedure_code(store[i].submitted_procedure)
                = <<store[i].submitted_procedure>>

(***************************************************************************)
(* Properties of the rate limiter.                                         *)
(***************************************************************************)
\* C18: /top_providers is limited to 10 requests per minute: a request that is
\* the 11th or later of its window is answered 429.
TopProvidersThrottled ==
    (last.op = "get_top_providers" /\ hits.top > RateLimitTimes) => last.status = 429

(***************************************************************************)
(* Properties of the example application.                                  *)
(***************************************************************************)
\* C19: for every payload POST /claims/ of src/app/main.py accepts, the
\* returned and stored net_fee is provider_fees + member_coinsurance +
\* member_copay - allowed_fees.
AppNetFeeComputed ==
    (last.op = "app_create_claim" /\ last.status = 200) =>
        /\ last.body[1].net_fee
             = Cents(last.req.provider_fees + last.req.member_coinsurance
                     + last.req.member_copay - last.req.allowed_fees)
        /\ store[Len(store)].net_fee = last.body[1].net_fee

(***************************************************************************)
(* Properties of optional fields.                                          *)
(***************************************************************************)
\* C20: a submission that is valid but for carrying no quadrant value (the key
\* omitted, or null) is accepted by create_claim and stored with quadrant "".
MissingQuadrantAccepted ==
    (/\ last.op = "create_claim" /\ last.fault = "none"
     /\ \E kind \in {"null", "absent"} :
            last.req = [BaseSub EXCEPT !.quadrant = [kind |-> kind, v |-> ""]]) =>
        /\ last.status = 201
        /\ last.body[1].quadrant = ""
        /\ store[Len(store)].quadrant = ""

(***************************************************************************)
(* Properties of the service date.                                         *)
(***************************************************************************)
\* The service_date texts of the model that none of the three formats
\* (MM/DD/YY HH:MM, YYYY-MM-DD, MM/DD/YYYY) matches: a 30th of February and a
\* day-first date.
UnparseableDates == {"2/30/18 0:00", "28/3/18"}

\* C21: create_claim answers a submission whose service_date matches none of
\* the accepted formats with a client error and leaves the table as it was; a
\* submission it accepts is stored with the calendar date its text denotes in
\* the first format that matches, so no row it writes has a null service_date.
UnparseableDateRejected ==
    [][last'.op = "create_claim" =>
        /\ last'.req.service_date \in UnparseableDates =>
              /\ last'.status \in 400..499
              /\ store' = store
        /\ last'.status = 201 =>
              /\ store'[Len(store')].service_date # <<>>
              /\ store'[Len(store')].service_date.d \in 1..31
              /\ last'.req.service_date = "3/28/18 0:00" =>
                    store'[Len(store')].service_date = [y |-> 2018, m |-> 3, d |-> 28]
              /\ last'.req.service_date = "2018-03-29" =>
                    store'[Len(store')].service_date = [y |-> 2018, m |-> 3, d |-> 29]
              /\ last'.req.service_date = "03/30/2018" =>
                    store'[Len(store')].service_date = [y |-> 2018, m |-> 3, d |-> 30]]_vars

\* C21 witness: a submission dated the 30th of February was answered 422 while
\* the table held rows, which all carry a date.
UnparseableDateRejectedWitness ==
    /\ last.op = "create_claim" /\ last.req.service_date = "2/30/18 0:00"
    /\ last.status = 422
    /\ Len(store) > 0
    /\ \A i \in 1..Len(store) : store[i].service_date # <<>>

(***************************************************************************)
(* Properties of the bulk loader's rows.                                   *)
(***************************************************************************)
FeeColumns == {"provider_fees", "allowed_fees", "member_coinsurance", "member_copay"}

\* The cell of source row i of the loaded file in column col.
SourceCell(i, col) == CellOf(Columns(last.file.headers), last.file.rows[i], col)

\* C22: after a bulk load, a row whose fee cell was missing or the literal
\* 'nan' holds 0 in that column, and its net_fee is the number computed from
\* its four stored fees.
BulkMissingFeeIsZero ==
    (last.op = "initialize_data" /\ last.outcome = "loaded") =>
        \A i \in 1..Len(store) :
            (\E col \in FeeColumns : SourceCell(i, col) \in {"", "nan"}) =>
                /\ \A col \in FeeColumns :
                      SourceCell(i, col) \in {"", "nan"} => store[i][col] = Cents(0)
                /\ store[i].net_fee
                     = Cents(store[i].provider_fees.c + store[i].member_coinsurance.c
                             + store[i].member_copay.c - store[i].allowed_fees.c)

\* C23: when initialize_data finishes, normally or with an error, the table
\* holds one row for every row of the source file, in the file's order, or no
\* row of this run (the table is empty, or, when the connectivity check
\* failed, exactly as it was): never some of the file's rows without the others.
BulkInsertAllOrNothing ==
    [][last'.op = "initialize_data" =>
        IF last'.outcome = "RuntimeError" THEN store' = store
        ELSE IF last'.outcome = "loaded"
        THEN /\ Len(store') = Len(last'.file.rows)
             /\ \A i \in 1..Len(store') : store'[i].id = i
        ELSE store' = <<>>]_vars

\* C23 witness: a load whose second row the INSERT refused (its date is not
\* in the loader's format) ended with the error and without the first row.
BulkInsertAllOrNothingWitness ==
    /\ last.op = "initialize_data" /\ last.file = BadDateFile
    /\ Len(last.file.rows) = 2
    /\ last.outcome = "DBAPIError"
    /\ store = <<>>

\* The submitted procedure cell of row i of a file that has the header line
\* Headers (it is the second column).
SourceProcedure(file, i) == IF file.headers = Headers THEN file.rows[i][2] ELSE ""

\* C24: after every run of initialize_data that got past the connectivity
\* check, none of the rows the table held before remain: with the file absent
\* or a required column missing (or any later error) the table is empty, and
\* after a load it holds the rows of the file and nothing else, numbered from 1
\* by a new sequence.
PriorRowsDropped ==
    [][(last'.op = "initialize_data" /\ last'.outcome # "RuntimeError") =>
        IF last'.outcome = "loaded"
        THEN /\ Len(store') = Len(last'.file.rows)
             /\ nextId' = Len(last'.file.rows) + 1
             /\ \A i \in 1..Len(store') :
                   /\ store'[i].id = i
                   /\ store'[i].submitted_procedure = SourceProcedure(last'.file, i)
        ELSE store' = <<>> /\ nextId' \in {1, Len(last'.file.rows) + 1}]_vars

\* C24 witness: a run that found a required column missing started with rows
\* in the table and has left it empty, the id sequence new.
PriorRowsDroppedWitness ==
    /\ last.op = "initialize_data" /\ last.outcome = "KeyError"
    /\ last.rows_before > 0
    /\ store = <<>> /\ nextId = 1

\* The row a request was answered 201 with is in the table.
AcknowledgedRowStored(p) ==
    RowsWithId(store, sessions[p].body[1].id) = <<sessions[p].body[1]>>

\* C25: when the loader has run to its end before the first create_claim
\* request arrived, every claim answered 201 is in the table; and the loader's
\* schema drop, taken after a claim was committed and answered 201, leaves no
\* row with that claim's id in the table.
DurableUnlessLoadOverlaps ==
    /\ []((loader.pc = "done" /\ loader.quiet) =>
            \A p \in Acknowledged : AcknowledgedRowStored(p))
    /\ [][(loader.pc = "connected" /\ loader'.pc = "dropped") =>
            \A p \in Acknowledged :
                /\ sessions'[p] = sessions[p]
                /\ RowsWithId(store', sessions[p].body[1].id) = <<>>]_vars

\* C25 witness: the loader has loaded its file, its schema drop came after a
\* create_claim request had been committed and answered 201, and the table
\* holds no row with that claim's id.
DurableUnlessLoadOverlapsWitness ==
    /\ loader.pc = "done" /\ loader.outcome = "loaded" /\ ~loader.quiet
    /\ \E p \in Acknowledged : RowsWithId(store, sessions[p].body[1].id) = <<>>

\* A load that ended before the first request arrived, and two claims answered
\* 201 after it, both in the table behind the rows of the file.
LoadBeforeTrafficReached ==
    /\ loader.pc = "done" /\ loader.outcome = "loaded" /\ loader.quiet
    /\ Cardinality(Acknowledged) = MaxSessions
    /\ \A p \in Acknowledged : AcknowledgedRowStored(p)

====
